---------------------------- MODULE Spec2Model ----------------------------
(***************************************************************************)
(* Helix keymap glue of the marimo notebook editor                         *)
(* (frontend/src/core/codemirror/keymaps/helix.ts).                        *)
(*                                                                         *)
(* The state is the set of cell editors (EditorView), each with its helix  *)
(* mode field, the HelixModeSync singleton (registry + isBroadcasting),    *)
(* and the two deferred-callback queues of the browser: the animation      *)
(* frame callbacks that register a view and the idle callbacks that        *)
(* execute a broadcast.                                                    *)
(***************************************************************************)
EXTENDS Integers, Sequences, FiniteSets, TLC

(***************************************************************************)
(* Bounds of the model.                                                    *)
(***************************************************************************)
NumInstances == 3
MaxKeys == 2
MaxDoc == 2
MaxPresses == 3
MaxEffects == 2

(***************************************************************************)
(* Mode values of codemirror-helix (helix.ts:21, part_000:33-45).          *)
(***************************************************************************)
Normal == 0
Insert == 1
Select == 4
MinorNormal == 2
Goto == 3
Match == 5
Space == 6

Majors == {Normal, Insert, Select}
Minors == {MinorNormal, Goto, Match, Space}
HelixModeState == [type : Majors, minor : Minors]

(***************************************************************************)
(* The modes the keys of the mode-sync scenarios produce (i, Escape, g):   *)
(* a change of the major mode, a change back, a change of the minor only.  *)
(***************************************************************************)
KeyModes == {[type |-> Normal, minor |-> MinorNormal],
             [type |-> Insert, minor |-> MinorNormal],
             [type |-> Normal, minor |-> Goto]}

Views == 1 .. NumInstances

VARIABLES
    life,           \* per view: "none" (not constructed), "mounted", "destroyed"
    mode,           \* per view: the value of helixModeField in view.state
    instances,      \* HelixModeSync.instances, a Set in insertion order
    isBroadcasting, \* HelixModeSync.isBroadcasting
    rafQueue,       \* requestAnimationFrame callbacks not yet run (FIFO)
    idleQueue,      \* onIdle callbacks not yet run (FIFO): the closures (view, next)
    idleGhost,      \* history, parallel to idleQueue: how each callback was scheduled
                    \*   and the key changes made since (see KeySince)
    nLocal,         \* history: number of mode changes made by Key steps
    nRun,           \* history: number of idle callbacks executed
    last,           \* history: the step just taken (see NoEvent)
    pfield,         \* a standalone editor state: its helix mode field, <<>> when absent
    pfrom,          \* ... selection.main.from
    pto,            \* ... selection.main.to
    pdoc,           \* ... doc.length
    pcell,          \* ... the cellIdState facet
    pev,            \* a keydown event given to it: its key and ctrlKey
    pplat,          \* the platform the keymaps were built for
    peffs,          \* the mode effects of a transaction applied to it
    pres,           \* ... the predicates' results once evaluated
    awaitingGotoKey, \* per view: awaitingGotoKey of its goToDefinitionKeymap() closure
    nPress,         \* history: number of Press steps
    klast,          \* history: the key press just handled (see NoKey)
    stateInstances, \* HelixStateSync.instances, a Set in insertion order
    stateIsBroadcasting, \* HelixStateSync.isBroadcasting
    registers,      \* per view: the helix global state (registers) of view.state
    nYank,          \* history: number of Yank steps
    ylast           \* history: the yank just handled (see NoYank)

syncVars == <<life, mode, instances, isBroadcasting, rafQueue, idleQueue,
              idleGhost, nLocal, nRun, last>>
probeInputs == <<pfield, pfrom, pto, pdoc, pcell, pev, pplat, peffs>>
predVars == <<probeInputs, pres>>
gdVars == <<awaitingGotoKey, nPress, klast>>
regVars == <<stateInstances, stateIsBroadcasting, registers, nYank, ylast>>
vars == <<syncVars, predVars, gdVars, regVars>>

(***************************************************************************)
(* Sequence helpers for the insertion-ordered Set.                         *)
(***************************************************************************)
Range(s) == {s[i] : i \in 1 .. Len(s)}

SetAdd(s, v) == IF v \in Range(s) THEN s ELSE Append(s, v)

SetDelete(s, v) == SelectSeq(s, LAMBDA x : x # v)

(***************************************************************************)
(* helixModeField: create() and update(mode, tr) for a transaction that    *)
(* carries the mode effects effs (a sequence of mode values).              *)
(***************************************************************************)
helixModeFieldCreate == [type |-> Normal, minor |-> MinorNormal]

helixModeFieldUpdateLast(m, effs) == IF Len(effs) > 0 THEN effs[Len(effs)] ELSE m

helixModeFieldUpdate(m, effs) == IF Len(effs) > 0 THEN effs[1] ELSE m

(***************************************************************************)
(* view.state.field(helixModeField, false): <<>> when the field is absent, *)
(* <<m>> when present.  Under helixKeymapExtension it is always present.   *)
(***************************************************************************)
Field(v) == <<mode[v]>>

isInHelixInsertModeSelectToo(f) == (IF Len(f) = 0 THEN Normal ELSE f[1].type) # Normal

isInHelixNormalModeFieldRequired(f) == Len(f) > 0 /\ f[1].type = Normal

isInHelixNormalMode(f) == (IF Len(f) = 0 THEN Normal ELSE f[1].type) = Normal

isInHelixInsertMode(f) == (IF Len(f) = 0 THEN Normal ELSE f[1].type) = Insert

(***************************************************************************)
(* The same two predicates as the unnamed source part defines them.        *)
(***************************************************************************)
isInHelixNormalModePart000(f) ==
    IF Len(f) = 0 THEN TRUE
    ELSE f[1].type = Normal /\ f[1].minor = MinorNormal

isInHelixInsertModePart000(f) ==
    IF Len(f) = 0 THEN FALSE ELSE f[1].type = Insert

(***************************************************************************)
(* Boundary helpers.                                                       *)
(***************************************************************************)
isAtStartOfEditorHelix(f, from) == from = 0 /\ isInHelixNormalMode(f)

isAtEndOfEditorHelix(f, to, docLength) == to >= docLength /\ isInHelixNormalMode(f)

(***************************************************************************)
(* The j and k keymaps: run(view) of each, as the pair of its return value *)
(* (handled) and the calls it made to actions.moveToNextCell.              *)
(***************************************************************************)
CellIds == {"cellA", "cellB"}

NotHandled == [handled |-> FALSE, calls |-> <<>>]

jRunBefore(f, to, docLength, cellId) ==
    IF ~isAtEndOfEditorHelix(f, to, docLength) THEN NotHandled
    ELSE [handled |-> TRUE,
          calls |-> <<[cellId |-> cellId, before |-> TRUE, noCreate |-> TRUE]>>]

jRun(f, to, docLength, cellId) ==
    IF ~isAtEndOfEditorHelix(f, to, docLength) THEN NotHandled
    ELSE [handled |-> TRUE,
          calls |-> <<[cellId |-> cellId, before |-> FALSE, noCreate |-> TRUE]>>]

kRunAnyMode(f, from, cellId) ==
    IF from # 0 THEN NotHandled
    ELSE [handled |-> TRUE,
          calls |-> <<[cellId |-> cellId, before |-> TRUE, noCreate |-> TRUE]>>]

kRun(f, from, cellId) ==
    IF ~isAtStartOfEditorHelix(f, from) THEN NotHandled
    ELSE [handled |-> TRUE,
          calls |-> <<[cellId |-> cellId, before |-> TRUE, noCreate |-> TRUE]>>]

(***************************************************************************)
(* The Ctrl-[ keymap: the binding names the key for linux and win only, so *)
(* the keymap built for another platform has no such binding; run(view)    *)
(* as its return value and the mode effects it dispatched.                 *)
(***************************************************************************)
Platforms == {"linux", "win", "mac"}

Events == [key : {"Escape", "[", "g"}, ctrlKey : BOOLEAN]

NoEffects == [handled |-> FALSE, effects |-> <<>>]

ctrlBracketRunAnyMode(f) ==
    [handled |-> TRUE, effects |-> <<[type |-> Normal, minor |-> MinorNormal]>>]

ctrlBracketRun(f) ==
    IF ~isInHelixInsertMode(f) THEN NoEffects
    ELSE [handled |-> TRUE,
          effects |-> <<[type |-> Normal, minor |-> MinorNormal]>>]

ctrlBracketKeymap(platform, ev, f) ==
    IF platform \in {"linux", "win"} /\ ev.ctrlKey /\ ev.key = "["
    THEN ctrlBracketRun(f)
    ELSE NoEffects

(***************************************************************************)
(* The keydown handler of EditorView.domEventHandlers: its return value    *)
(* and the events it dispatched on view.dom.                               *)
(***************************************************************************)
keydownAnyEscape(ev) ==
    IF ev.key = "Escape"
    THEN [handled |-> TRUE,
          dispatched |-> <<[target |-> "view.dom", type |-> "keydown",
                            key |-> ev.key, ctrlKey |-> ev.ctrlKey]>>]
    ELSE [handled |-> FALSE, dispatched |-> <<>>]

keydown(ev) ==
    IF ev.ctrlKey /\ ev.key = "Escape"
    THEN [handled |-> TRUE,
          dispatched |-> <<[target |-> "view.dom", type |-> "keydown",
                            key |-> ev.key, ctrlKey |-> ev.ctrlKey]>>]
    ELSE [handled |-> FALSE, dispatched |-> <<>>]

(***************************************************************************)
(* commands.of([...]): the typed commands the extension registers, and the *)
(* handler of write as the calls it makes to actions.saveNotebook and the  *)
(* mode effects it dispatches.                                             *)
(***************************************************************************)
commandsOf == <<[name |-> "write", aliases |-> <<"w">>, help |-> "Save notebook"]>>

writeHandlerResets(v) ==
    [saves |-> 1, effects |-> <<[type |-> Normal, minor |-> MinorNormal]>>]

writeHandler(v) == [saves |-> 1, effects |-> <<>>]

(***************************************************************************)
(* goToDefinitionKeymap(): the g, d and any handlers of one closure, each  *)
(* applied to the view's mode field f and the closure's awaitingGotoKey.   *)
(* The result holds the handler's return value (handled), the flag after   *)
(* it, the number of calls of goToDefinitionAtCursorPosition (gd) and the  *)
(* mode effects it dispatched.                                             *)
(***************************************************************************)
NormalMode == [type |-> Normal, minor |-> MinorNormal]

Keys == {"g", "d", "i", "v", "e", "Escape"}

Pass(awaiting) ==
    [handled |-> FALSE, awaiting |-> awaiting, gd |-> 0, effects |-> <<>>]

gRunAnyMode(f, awaiting) == Pass(TRUE)

gRun(f, awaiting) ==
    IF isInHelixNormalMode(f) THEN Pass(TRUE) ELSE Pass(awaiting)

dRunNoReset(f, awaiting) ==
    IF ~awaiting THEN Pass(awaiting)
    ELSE IF (IF Len(f) = 0 THEN Normal ELSE f[1].type) # Normal THEN Pass(FALSE)
         ELSE [handled |-> TRUE, awaiting |-> FALSE, gd |-> 1, effects |-> <<>>]

dRun(f, awaiting) ==
    IF ~awaiting THEN Pass(awaiting)
    ELSE IF (IF Len(f) = 0 THEN Normal ELSE f[1].type) # Normal THEN Pass(FALSE)
         ELSE [handled |-> TRUE, awaiting |-> FALSE, gd |-> 1,
               effects |-> <<NormalMode>>]

anyRun(key, awaiting) == IF key # "g" /\ key # "d" THEN FALSE ELSE awaiting

(***************************************************************************)
(* The handlers bound to a key run in the order of their bindings until    *)
(* one returns true.                                                       *)
(***************************************************************************)
KeymapRun(key, f, awaiting) ==
    LET r == IF key = "g" THEN gRun(f, awaiting)
             ELSE IF key = "d" THEN dRun(f, awaiting)
             ELSE Pass(awaiting)
    IN  IF r.handled THEN r ELSE [r EXCEPT !.awaiting = anyRun(key, @)]

(***************************************************************************)
(* What the modal engine (codemirror-helix) does with a key that the       *)
(* keymaps above left unhandled: the mode its transaction sets.  Escape    *)
(* returns to Normal; a key pressed in a transient minor mode ends it;     *)
(* g begins the Goto minor mode, i enters Insert, v toggles Select, d in   *)
(* Select deletes and returns to Normal; in Insert the keys are typed.     *)
(***************************************************************************)
Engine(key, m) ==
    IF key = "Escape" THEN NormalMode
    ELSE IF m.minor # MinorNormal THEN [m EXCEPT !.minor = MinorNormal]
    ELSE IF m.type = Insert THEN m
    ELSE IF key = "g" THEN [m EXCEPT !.minor = Goto]
    ELSE IF key = "i" THEN [type |-> Insert, minor |-> MinorNormal]
    ELSE IF key = "v"
         THEN [type |-> IF m.type = Normal THEN Select ELSE Normal,
               minor |-> MinorNormal]
    ELSE IF key = "d" THEN NormalMode
    ELSE m

(***************************************************************************)
(* The part of the program state that a dispatch can touch, threaded       *)
(* through the handlers below; count and warned record, per view, the      *)
(* dispatches of one broadcast and the warnings it logged.                 *)
(***************************************************************************)
Cur == [mode |-> mode, flag |-> isBroadcasting, queue |-> idleQueue,
        ghost |-> idleGhost,
        count |-> [v \in Views |-> 0], warned |-> {}]

(***************************************************************************)
(* The mode sync ViewPlugin's update(update) on view v, whose field went   *)
(* from prev to next.  cause is history only.                              *)
(***************************************************************************)
PluginUpdateNoGuard(st, v, prev, next, cause) ==
    IF prev.type # next.type \/ prev.minor # next.minor
    THEN [st EXCEPT !.flag = TRUE,
                    !.queue = Append(@, [origin |-> v, mode |-> next]),
                    !.ghost = Append(@, [cause |-> cause,
                                         reg |-> v \in Range(instances),
                                         later |-> <<>>,
                                         stray |-> FALSE,
                                         gd |-> FALSE])]
    ELSE st

PluginUpdate(st, v, prev, next, cause) ==
    IF prev.type # next.type \/ prev.minor # next.minor
    THEN IF st.flag
         THEN st
         ELSE [st EXCEPT !.flag = TRUE,
                         !.queue = Append(@, [origin |-> v, mode |-> next]),
                         !.ghost = Append(@, [cause |-> cause,
                                              reg |-> v \in Range(instances),
                                              later |-> <<>>,
                                              stray |-> FALSE,
                                              gd |-> FALSE])]
    ELSE st

(***************************************************************************)
(* view.dispatch({effects: modeEffectType.of(m)}) on view v: the field is  *)
(* updated; the plugins of a live view are then updated, those of a        *)
(* destroyed view no longer exist.                                         *)
(***************************************************************************)
Dispatch(st, v, m, cause) ==
    LET prev == st.mode[v]
        next == helixModeFieldUpdate(prev, <<m>>)
        st1 == [st EXCEPT !.mode[v] = next]
    IN  IF life[v] = "mounted" THEN PluginUpdate(st1, v, prev, next, cause) ELSE st1

(***************************************************************************)
(* HelixModeSync.addInstance(view), after this.instances.add(view) made    *)
(* the registry reg.                                                       *)
(***************************************************************************)
Donor(reg, view) == SelectSeq(reg, LAMBDA x : x # view)

addInstanceNoPush(st, reg, view) == st

addInstance(st, reg, view) ==
    LET donor == Donor(reg, view)
    IN  IF Len(donor) = 0 THEN st
        ELSE Dispatch(st, view, st.mode[donor[1]], "adopt")

(***************************************************************************)
(* HelixModeSync.removeInstance(view)                                      *)
(***************************************************************************)
removeInstance(reg, view) == SetDelete(reg, view)

(***************************************************************************)
(* HelixModeSync.broadcastModeChange(origin, mode); F is the set of views  *)
(* whose dispatch throws.  BroadcastVisit is one pass of the loop body.    *)
(***************************************************************************)
BroadcastVisitOriginToo(st, view, origin, m, F) ==
    [Dispatch(st, view, m, "forced") EXCEPT !.count[view] = @ + 1]

BroadcastVisit(st, view, origin, m, F) ==
    IF view = origin THEN st
    ELSE IF view \in F
         THEN [st EXCEPT !.warned = @ \cup {view}, !.count[view] = @ + 1]
         ELSE [Dispatch(st, view, m, "forced") EXCEPT !.count[view] = @ + 1]

RECURSIVE BroadcastLoopBreakAtOrigin(_, _, _, _, _)
BroadcastLoopBreakAtOrigin(st, views, origin, m, F) ==
    IF Len(views) = 0 \/ Head(views) = origin THEN st
    ELSE BroadcastLoopBreakAtOrigin(BroadcastVisit(st, Head(views), origin, m, F),
                                    Tail(views), origin, m, F)

RECURSIVE BroadcastLoopNoCatch(_, _, _, _, _)
BroadcastLoopNoCatch(st, views, origin, m, F) ==
    IF Len(views) = 0 THEN st
    ELSE IF Head(views) # origin /\ Head(views) \in F
         THEN BroadcastVisit(st, Head(views), origin, m, F)
         ELSE BroadcastLoopNoCatch(BroadcastVisit(st, Head(views), origin, m, F),
                                   Tail(views), origin, m, F)

RECURSIVE BroadcastLoop(_, _, _, _, _)
BroadcastLoop(st, views, origin, m, F) ==
    IF Len(views) = 0 THEN st
    ELSE BroadcastLoop(BroadcastVisit(st, Head(views), origin, m, F),
                       Tail(views), origin, m, F)

broadcastModeChangeLiveOrigin(st, origin, m, F) ==
    IF life[origin] = "destroyed" THEN st
    ELSE BroadcastLoop(st, instances, origin, m, F)

broadcastModeChangeCurrent(st, origin, m, F) ==
    BroadcastLoop(st, instances, origin, st.mode[origin], F)

broadcastModeChange(st, origin, m, F) == BroadcastLoop(st, instances, origin, m, F)

(***************************************************************************)
(* History of the step just taken: kind is "idle" when it was the run of   *)
(* an idle callback, "reset" when it was a call of the reset hook, and     *)
(* "none" otherwise.  For an idle callback, view is   *)
(* the broadcast's origin, mode the mode it carried, before the origin's   *)
(* mode before the run, sched whether the run queued an idle callback,     *)
(* count and warned the dispatches made to each view and the views whose   *)
(* dispatch threw; cause, reg, later and stray tell how the broadcast had  *)
(* been scheduled (by what, whether its origin was registered then) and    *)
(* the key changes made since (see KeySince); gd whether the latest of     *)
(* them was the reset made by a completed g d sequence.                    *)
(***************************************************************************)
NoEvent == [kind |-> "none", view |-> 0, mode |-> helixModeFieldCreate,
            before |-> helixModeFieldCreate, sched |-> FALSE,
            cause |-> "none", reg |-> FALSE, later |-> <<>>, stray |-> FALSE,
            gd |-> FALSE,
            count |-> [v \in Views |-> 0], warned |-> {}]

(***************************************************************************)
(* History of the key press just handled: kind is "press" when the step    *)
(* just taken was a key press and "none" otherwise; armed and before are   *)
(* the view's awaitingGotoKey and mode before the press, handled and gd    *)
(* the keymaps' result.  kind is "write" when the step just taken was an   *)
(* invocation of the write command on view, saves the calls it made to     *)
(* saveNotebook.                                                           *)
(***************************************************************************)
NoKey == [kind |-> "none", key |-> "", view |-> 0, handled |-> FALSE, gd |-> 0,
          armed |-> FALSE, before |-> helixModeFieldCreate, saves |-> 0]

NoResult == [probed |-> FALSE, normal |-> FALSE, insert |-> FALSE,
             normal000 |-> FALSE, insert000 |-> FALSE,
             atStart |-> FALSE, atEnd |-> FALSE,
             j |-> NotHandled, k |-> NotHandled,
             ctrlBracket |-> NoEffects, afterCtrlBracket |-> <<>>,
             keydown |-> [handled |-> FALSE, dispatched |-> <<>>],
             afterTx |-> <<>>]

NoKeydown == [key |-> "g", ctrlKey |-> FALSE]

(***************************************************************************)
(* HelixStateSync of the unnamed source part: the register sync.  The      *)
(* state of a syncFrom call in progress is a record of the flag, the       *)
(* registers of every view, the dispatches attempted on each view, the     *)
(* syncFrom calls that returned at the guard, and whether a dispatch has   *)
(* thrown, in which case the exception unwinds the call.  F is the set of  *)
(* views whose dispatch throws.                                            *)
(***************************************************************************)
RegValues == {"a", "b"}

NoRegisters == ""

globalStateSync(regs, origin) == regs[origin]

RECURSIVE syncFrom(_, _, _)
RECURSIVE SyncLoop(_, _, _, _, _)

(* view.dispatch(...txSpecs) on a follower: its registers are replaced and *)
(* its own register sync plugin sees the yank effect and calls syncFrom.   *)
StateDispatch(st, view, tx, F) ==
    IF view \in F
    THEN [st EXCEPT !.count[view] = @ + 1, !.threw = TRUE]
    ELSE syncFrom([st EXCEPT !.regs[view] = tx, !.count[view] = @ + 1], view, F)

SyncLoop(st, views, origin, tx, F) ==
    IF Len(views) = 0 \/ st.threw THEN st
    ELSE SyncLoop(IF Head(views) # origin
                  THEN StateDispatch(st, Head(views), tx, F)
                  ELSE st,
                  Tail(views), origin, tx, F)

syncFrom(st, origin, F) ==
    IF st.flag THEN [st EXCEPT !.suppressed = @ + 1]
    ELSE LET st1 == [st EXCEPT !.flag = TRUE]
             st2 == SyncLoop(st1, stateInstances, origin,
                             globalStateSync(st1.regs, origin), F)
         IN  IF st2.threw THEN st2 ELSE [st2 EXCEPT !.flag = FALSE]

(***************************************************************************)
(* History of the yank just handled: the view, whether the guard flag was  *)
(* set when its syncFrom was called, the dispatches attempted on each      *)
(* view, the nested syncFrom calls that returned at the guard, and whether *)
(* a dispatch threw.                                                       *)
(***************************************************************************)
NoYank == [kind |-> "none", view |-> 0, guarded |-> FALSE,
           count |-> [v \in Views |-> 0], suppressed |-> 0, threw |-> FALSE]

RegInit ==
    /\ stateInstances = [i \in 1 .. NumInstances |-> i]
    /\ stateIsBroadcasting = FALSE
    /\ registers = [v \in Views |-> NoRegisters]
    /\ nYank = 0
    /\ ylast = NoYank

SyncInit ==
    /\ RegInit
    /\ life = [v \in Views |-> "none"]
    /\ mode = [v \in Views |-> helixModeFieldCreate]
    /\ instances = <<>>
    /\ isBroadcasting = FALSE
    /\ rafQueue = <<>>
    /\ idleQueue = <<>>
    /\ idleGhost = <<>>
    /\ nLocal = 0
    /\ nRun = 0
    /\ last = NoEvent
    /\ awaitingGotoKey = [v \in Views |-> FALSE]
    /\ nPress = 0
    /\ klast = NoKey

Init ==
    /\ SyncInit
    /\ pfield = <<helixModeFieldCreate>>
    /\ pfrom = 0
    /\ pto = 0
    /\ pdoc = 0
    /\ pcell = "cellA"
    /\ pev = NoKeydown
    /\ pplat = "linux"
    /\ peffs = <<>>
    /\ pres = NoResult

(***************************************************************************)
(* History: a key change of view v to mode m, noted in the entries of the  *)
(* callbacks that were pending before it: later is the sequence of the     *)
(* mode set by the latest key change since the callback was scheduled      *)
(* (empty when there was none), stray whether one of them was on an        *)
(* unregistered view.                                                      *)
(***************************************************************************)
KeySince(ghost, pendingBefore, v, m) ==
    [i \in 1 .. Len(ghost) |->
        IF i <= pendingBefore
        THEN [ghost[i] EXCEPT !.later = <<m>>,
                              !.stray = (@ \/ v \notin Range(instances)),
                              !.gd = FALSE]
        ELSE ghost[i]]

GdSince(ghost, pendingBefore) ==
    [i \in 1 .. Len(ghost) |->
        IF i <= pendingBefore THEN [ghost[i] EXCEPT !.gd = TRUE] ELSE ghost[i]]

Commit(st) ==
    /\ mode' = st.mode
    /\ isBroadcasting' = st.flag
    /\ idleQueue' = st.queue
    /\ idleGhost' = st.ghost

(***************************************************************************)
(* new EditorView(...): the field is created and the mode sync plugin's    *)
(* constructor requests an animation frame.  Views are numbered in the     *)
(* order of their construction.                                            *)
(***************************************************************************)
Mount(v) ==
    /\ life[v] = "none"
    /\ \A w \in Views : w < v => life[w] # "none"
    /\ life' = [life EXCEPT ![v] = "mounted"]
    /\ mode' = [mode EXCEPT ![v] = helixModeFieldCreate]
    /\ rafQueue' = Append(rafQueue, v)
    /\ last' = NoEvent
    /\ klast' = NoKey
    /\ UNCHANGED <<instances, isBroadcasting, idleQueue, idleGhost, nLocal, nRun,
                   predVars, regVars, awaitingGotoKey,
                   nPress>>

(***************************************************************************)
(* The animation frame callback of the oldest request runs:                *)
(*   HelixModeSync.INSTANCES.addInstance(view)                             *)
(***************************************************************************)
Raf ==
    /\ Len(rafQueue) > 0
    /\ LET view == Head(rafQueue)
           reg == SetAdd(instances, view)
       IN  /\ instances' = reg
           /\ Commit(addInstance(Cur, reg, view))
    /\ last' = NoEvent
    /\ rafQueue' = Tail(rafQueue)
    /\ klast' = NoKey
    /\ UNCHANGED <<life, nLocal, nRun, predVars, regVars, awaitingGotoKey,
                   nPress>>

(***************************************************************************)
(* view.destroy(): the plugin's destroy() calls removeInstance(view).      *)
(***************************************************************************)
Destroy(v) ==
    /\ life[v] = "mounted"
    /\ life' = [life EXCEPT ![v] = "destroyed"]
    /\ instances' = removeInstance(instances, v)
    /\ last' = NoEvent
    /\ klast' = NoKey
    /\ UNCHANGED <<mode, isBroadcasting, rafQueue, idleQueue, idleGhost, nLocal,
                   nRun, predVars, regVars, awaitingGotoKey,
                   nPress>>

(***************************************************************************)
(* A key press on view v makes the modal engine dispatch a transaction     *)
(* whose mode effect is m, a mode other than the current one.              *)
(***************************************************************************)
Key(v, m) ==
    /\ life[v] = "mounted"
    /\ nLocal < MaxKeys
    /\ m # mode[v]
    /\ nLocal' = nLocal + 1
    /\ LET st0 == Dispatch(Cur, v, m, "key")
           st == [st0 EXCEPT !.ghost = KeySince(@, Len(idleQueue), v, m)]
       IN  Commit(st)
    /\ last' = NoEvent
    /\ klast' = NoKey
    /\ UNCHANGED <<life, instances, rafQueue, nRun, predVars, regVars,
                   awaitingGotoKey, nPress>>

(***************************************************************************)
(* The oldest idle callback runs:                                          *)
(*   broadcastModeChange(view, next); isBroadcasting = false               *)
(* F is the set of views whose dispatch throws during it.                  *)
(***************************************************************************)
IdleRunCancelled(F) ==
    /\ Len(idleQueue) > 0
    /\ F = {}
    /\ idleQueue' = Tail(idleQueue)
    /\ idleGhost' = Tail(idleGhost)
    /\ isBroadcasting' = FALSE
    /\ last' = NoEvent
    /\ klast' = NoKey
    /\ UNCHANGED <<life, mode, instances, rafQueue, nLocal, nRun, predVars, regVars,
                   awaitingGotoKey, nPress>>

IdleRunKeepsFlag(F) ==
    /\ Len(idleQueue) > 0
    /\ LET cb == Head(idleQueue)
           g == Head(idleGhost)
           st0 == [Cur EXCEPT !.queue = Tail(@), !.ghost = Tail(@)]
           st1 == broadcastModeChange(st0, cb.origin, cb.mode, F)
           st2 == st1
       IN  /\ F \subseteq Range(instances) \ {cb.origin}
           /\ Commit(st2)
           /\ last' = [NoEvent EXCEPT !.kind = "idle", !.view = cb.origin,
                                      !.mode = cb.mode,
                                      !.before = mode[cb.origin],
                                      !.sched = Len(st1.queue) > Len(st0.queue),
                                      !.cause = g.cause, !.reg = g.reg,
                                      !.later = g.later, !.stray = g.stray,
                                      !.gd = g.gd,
                                      !.count = st1.count,
                                      !.warned = st1.warned]
    /\ nRun' = nRun + 1
    /\ klast' = NoKey
    /\ UNCHANGED <<life, instances, rafQueue, nLocal, predVars, regVars,
                   awaitingGotoKey, nPress>>

IdleRun(F) ==
    /\ Len(idleQueue) > 0
    /\ LET cb == Head(idleQueue)
           g == Head(idleGhost)
           st0 == [Cur EXCEPT !.queue = Tail(@), !.ghost = Tail(@)]
           st1 == broadcastModeChange(st0, cb.origin, cb.mode, F)
           st2 == [st1 EXCEPT !.flag = FALSE]
       IN  /\ F \subseteq Range(instances) \ {cb.origin}
           /\ Commit(st2)
           /\ last' = [NoEvent EXCEPT !.kind = "idle", !.view = cb.origin,
                                      !.mode = cb.mode,
                                      !.before = mode[cb.origin],
                                      !.sched = Len(st1.queue) > Len(st0.queue),
                                      !.cause = g.cause, !.reg = g.reg,
                                      !.later = g.later, !.stray = g.stray,
                                      !.gd = g.gd,
                                      !.count = st1.count,
                                      !.warned = st1.warned]
    /\ nRun' = nRun + 1
    /\ klast' = NoKey
    /\ UNCHANGED <<life, instances, rafQueue, nLocal, predVars, regVars,
                   awaitingGotoKey, nPress>>

(***************************************************************************)
(* A key press on view v: the keymaps of helixKeymapExtension run first    *)
(* (Prec.high); the d handler's reset is dispatched; a key left unhandled  *)
(* goes to the modal engine, whose transaction sets the mode.              *)
(***************************************************************************)
AwaitingShared(v) == \E w \in Views : awaitingGotoKey[w]

Awaiting(v) == awaitingGotoKey[v]

Press(v, key) ==
    /\ life[v] = "mounted"
    /\ nPress < MaxPresses
    /\ nPress' = nPress + 1
    /\ LET r == KeymapRun(key, Field(v), Awaiting(v))
           pending == Len(idleQueue)
           st1 == IF Len(r.effects) > 0
                  THEN Dispatch(Cur, v, r.effects[1], "gd")
                  ELSE Cur
           m == IF r.handled THEN st1.mode[v] ELSE Engine(key, st1.mode[v])
           st2 == IF r.handled THEN st1 ELSE Dispatch(st1, v, m, "key")
           st3 == IF st2.mode[v] # mode[v]
                  THEN [st2 EXCEPT !.ghost = KeySince(@, pending, v, st2.mode[v])]
                  ELSE st2
           st4 == IF r.gd > 0
                  THEN [st3 EXCEPT !.ghost = GdSince(@, pending)]
                  ELSE st3
       IN  /\ Commit(st4)
           /\ awaitingGotoKey' = [awaitingGotoKey EXCEPT ![v] = r.awaiting]
           /\ klast' = [kind |-> "press", key |-> key, view |-> v,
                        handled |-> r.handled, gd |-> r.gd,
                        armed |-> awaitingGotoKey[v], before |-> mode[v],
                        saves |-> 0]
    /\ last' = NoEvent
    /\ UNCHANGED <<life, instances, rafQueue, nLocal, nRun, predVars, regVars>>

(***************************************************************************)
(* The write command (:write or :w) is invoked on view v: its handler runs *)
(* and the effects it returns, if any, are dispatched on v.                *)
(***************************************************************************)
WriteCommand(v) ==
    /\ life[v] = "mounted"
    /\ nPress < MaxPresses
    /\ nPress' = nPress + 1
    /\ LET r == writeHandler(v)
           st1 == IF Len(r.effects) > 0
                  THEN Dispatch(Cur, v, r.effects[1], "key")
                  ELSE Cur
       IN  /\ Commit(st1)
           /\ klast' = [NoKey EXCEPT !.kind = "write", !.view = v,
                                     !.handled = TRUE,
                                     !.armed = awaitingGotoKey[v],
                                     !.before = mode[v],
                                     !.saves = r.saves]
    /\ last' = NoEvent
    /\ UNCHANGED <<life, instances, rafQueue, nLocal, nRun, predVars, regVars,
                   awaitingGotoKey>>

Next ==
    \/ \E v \in Views : Mount(v)
    \/ Raf
    \/ \E v \in Views : Destroy(v)
    \/ \E v \in Views : \E m \in KeyModes : Key(v, m)
    \/ IdleRun({})

Spec == Init /\ [][Next]_vars


(***************************************************************************)
(* The program while its editors stay mounted, in an environment where a   *)
(* dispatch to a follower may throw during a broadcast.                    *)
(***************************************************************************)
IdleRunThrowing == \E F \in SUBSET Views : F # {} /\ IdleRun(F)

FaultNext ==
    \/ \E v \in Views : Mount(v)
    \/ Raf
    \/ \E v \in Views : \E m \in KeyModes : Key(v, m)
    \/ IdleRun({})
    \/ IdleRunThrowing

FaultSpec == Init /\ [][FaultNext]_vars

(***************************************************************************)
(* The program under key presses, from the state in which every editor has *)
(* been constructed and its animation frame callback has registered it:    *)
(* the g d sequence together with the mode sync.                           *)
(***************************************************************************)
GdInit ==
    /\ RegInit
    /\ life = [v \in Views |-> "mounted"]
    /\ mode = [v \in Views |-> helixModeFieldCreate]
    /\ instances = [i \in 1 .. NumInstances |-> i]
    /\ isBroadcasting = FALSE
    /\ rafQueue = <<>>
    /\ idleQueue = <<>>
    /\ idleGhost = <<>>
    /\ nLocal = 0
    /\ nRun = 0
    /\ last = NoEvent
    /\ awaitingGotoKey = [v \in Views |-> FALSE]
    /\ nPress = 0
    /\ klast = NoKey
    /\ pfield = <<helixModeFieldCreate>>
    /\ pfrom = 0
    /\ pto = 0
    /\ pdoc = 0
    /\ pcell = "cellA"
    /\ pev = NoKeydown
    /\ pplat = "linux"
    /\ peffs = <<>>
    /\ pres = NoResult

GdNext ==
    \/ \E v \in Views : \E key \in Keys : Press(v, key)
    \/ \E v \in Views : WriteCommand(v)
    \/ IdleRun({})

GdSpec == GdInit /\ [][GdNext]_vars

(***************************************************************************)
(* A yank (or delete, or search) on view v puts x into its registers; the  *)
(* transaction carries the yank effect, so the register sync plugin of v   *)
(* calls syncFrom(v).  At most MaxKeys of them are followed.               *)
(***************************************************************************)
Yank(v, x, F) ==
    /\ life[v] = "mounted"
    /\ nYank < MaxKeys
    /\ F \subseteq Range(stateInstances) \ {v}
    /\ nYank' = nYank + 1
    /\ LET st0 == [flag |-> stateIsBroadcasting,
                   regs |-> [registers EXCEPT ![v] = x],
                   count |-> [w \in Views |-> 0],
                   suppressed |-> 0,
                   threw |-> FALSE]
           st1 == syncFrom(st0, v, F)
       IN  /\ stateIsBroadcasting' = st1.flag
           /\ registers' = st1.regs
           /\ ylast' = [kind |-> "yank", view |-> v,
                        guarded |-> stateIsBroadcasting,
                        count |-> st1.count,
                        suppressed |-> IF stateIsBroadcasting THEN 0
                                       ELSE st1.suppressed,
                        threw |-> st1.threw]
    /\ UNCHANGED <<syncVars, predVars, gdVars, stateInstances>>

(***************************************************************************)
(* view.destroy() where both syncs are installed: each plugin's destroy()  *)
(* removes the view from its registry.                                     *)
(***************************************************************************)
RegDestroy(v) ==
    /\ life[v] = "mounted"
    /\ life' = [life EXCEPT ![v] = "destroyed"]
    /\ instances' = removeInstance(instances, v)
    /\ stateInstances' = SetDelete(stateInstances, v)
    /\ last' = NoEvent
    /\ klast' = NoKey
    /\ ylast' = NoYank
    /\ UNCHANGED <<mode, isBroadcasting, rafQueue, idleQueue, idleGhost, nLocal,
                   nRun, predVars, awaitingGotoKey, nPress, stateIsBroadcasting,
                   registers, nYank>>

RegNext ==
    \/ \E v \in Views : \E x \in RegValues : \E F \in SUBSET Views : Yank(v, x, F)
    \/ \E v \in Views : RegDestroy(v)

RegSpec == GdInit /\ [][RegNext]_vars

(***************************************************************************)
(* visibleForTesting.resetHelixModeSync(): HelixModeSync.INSTANCES.reset() *)
(* clears the registry and the flag.  Callbacks already given to           *)
(* requestAnimationFrame and onIdle stay queued.                           *)
(***************************************************************************)
ResetFlagOnly ==
    /\ isBroadcasting' = FALSE
    /\ last' = [NoEvent EXCEPT !.kind = "reset"]
    /\ klast' = NoKey
    /\ UNCHANGED <<life, mode, instances, rafQueue, idleQueue, idleGhost, nLocal,
                   nRun, predVars, regVars, awaitingGotoKey,
                   nPress>>

Reset ==
    /\ instances' = <<>>
    /\ isBroadcasting' = FALSE
    /\ last' = [NoEvent EXCEPT !.kind = "reset"]
    /\ klast' = NoKey
    /\ UNCHANGED <<life, mode, rafQueue, idleQueue, idleGhost, nLocal, nRun,
                   predVars, regVars, awaitingGotoKey,
                   nPress>>

(***************************************************************************)
(* The registered editors as a test drives them: keys are pressed, idle    *)
(* callbacks run, and the reset hook is called at any moment.              *)
(***************************************************************************)
ResetNext ==
    \/ \E v \in Views : \E m \in KeyModes : Key(v, m)
    \/ IdleRun({})
    \/ Reset

ResetSpec == GdInit /\ [][ResetNext]_vars

(***************************************************************************)
(* The registered editors under mode changes and teardown, with the        *)
(* scheduling of the browser: a callback given to onIdle is run once the   *)
(* browser is idle (or, without requestIdleCallback, by a timer), so a     *)
(* pending idle callback does not wait forever.                            *)
(***************************************************************************)
LiveNext ==
    \/ \E v \in Views : Destroy(v)
    \/ \E v \in Views : \E m \in KeyModes : Key(v, m)
    \/ IdleRun({})

LiveSpec == GdInit /\ [][LiveNext]_vars /\ WF_vars(IdleRun({}))

(***************************************************************************)
(* The pure predicates, applied to a standalone editor state whose mode    *)
(* field, selection and document length are drawn from all their values.   *)
(***************************************************************************)
OptionalModes == {<<>>} \cup {<<m>> : m \in HelixModeState}

PredInit ==
    /\ SyncInit
    /\ pfield \in OptionalModes
    /\ pdoc \in 0 .. MaxDoc
    /\ pfrom \in 0 .. MaxDoc
    /\ pto \in 0 .. MaxDoc
    /\ pfrom <= pto
    /\ pto <= pdoc
    /\ pcell \in CellIds
    /\ pev = NoKeydown
    /\ pplat = "linux"
    /\ peffs = <<>>
    /\ pres = NoResult

(***************************************************************************)
(* The same, for a keydown event drawn from the keys and modifiers and a   *)
(* keymap built for each platform.                                         *)
(***************************************************************************)
EventInit ==
    /\ SyncInit
    /\ pfield \in OptionalModes
    /\ pdoc = 0
    /\ pfrom = 0
    /\ pto = 0
    /\ pcell = "cellA"
    /\ pev \in Events
    /\ pplat \in Platforms
    /\ peffs = <<>>
    /\ pres = NoResult

(***************************************************************************)
(* The same, for a transaction that carries up to MaxEffects mode effects. *)
(***************************************************************************)
EffSeqs == UNION {[1 .. n -> HelixModeState] : n \in 0 .. MaxEffects}

TxInit ==
    /\ SyncInit
    /\ pfield \in {<<m>> : m \in HelixModeState}
    /\ pdoc = 0
    /\ pfrom = 0
    /\ pto = 0
    /\ pcell = "cellA"
    /\ pev = NoKeydown
    /\ pplat = "linux"
    /\ peffs \in EffSeqs
    /\ pres = NoResult

Probe ==
    /\ ~pres.probed
    /\ pres' = [probed |-> TRUE,
                normal |-> isInHelixNormalMode(pfield),
                insert |-> isInHelixInsertMode(pfield),
                normal000 |-> isInHelixNormalModePart000(pfield),
                insert000 |-> isInHelixInsertModePart000(pfield),
                atStart |-> isAtStartOfEditorHelix(pfield, pfrom),
                atEnd |-> isAtEndOfEditorHelix(pfield, pto, pdoc),
                j |-> jRun(pfield, pto, pdoc, pcell),
                k |-> kRun(pfield, pfrom, pcell),
                ctrlBracket |-> ctrlBracketKeymap(pplat, pev, pfield),
                afterCtrlBracket |->
                    IF Len(pfield) = 0 THEN <<>>
                    ELSE <<helixModeFieldUpdate(pfield[1],
                              ctrlBracketKeymap(pplat, pev, pfield).effects)>>,
                keydown |-> keydown(pev),
                afterTx |->
                    IF Len(pfield) = 0 THEN <<>>
                    ELSE <<helixModeFieldUpdate(pfield[1], peffs)>>]
    /\ UNCHANGED <<syncVars, probeInputs, gdVars, regVars>>

PredNext == Probe

PredSpec == PredInit /\ [][PredNext]_vars

EventSpec == EventInit /\ [][PredNext]_vars

TxSpec == TxInit /\ [][PredNext]_vars

TypeOK ==
    /\ life \in [Views -> {"none", "mounted", "destroyed"}]
    /\ mode \in [Views -> HelixModeState]
    /\ Range(instances) \subseteq Views
    /\ Len(instances) = Cardinality(Range(instances))
    /\ isBroadcasting \in BOOLEAN
    /\ Len(idleQueue) = Len(idleGhost)
    /\ awaitingGotoKey \in [Views -> BOOLEAN]
    /\ pfield \in OptionalModes
    /\ pcell \in CellIds
    /\ pev \in Events
    /\ pplat \in Platforms

Registered == Range(instances)

InsertMode == [type |-> Insert, minor |-> MinorNormal]

(***************************************************************************)
(* C1  Fan-out.  When the idle callback of a broadcast has run, and that   *)
(* broadcast was scheduled by a key change on a registered view with no    *)
(* other key change before the callback ran, every registered view holds   *)
(* the same mode (major and minor) as the originating view.                *)
(***************************************************************************)
C1_FanOut ==
    (last.kind = "idle" /\ last.cause = "key" /\ last.reg /\ last.later = <<>>)
        => \A v \in Registered : mode[v] = mode[last.view]

C1_Witness ==
    /\ last.kind = "idle" /\ last.cause = "key" /\ last.reg /\ last.later = <<>>
    /\ Cardinality(Registered) >= 3
    /\ last.view \in Registered
    /\ \A v \in Registered : mode[v] = InsertMode /\ life[v] = "mounted"

(***************************************************************************)
(* C2  Consistency after any sequence (the claim as stated).  When the     *)
(* broadcast of a key change on a registered view has run and none is      *)
(* pending, after key changes on registered views only and no teardown,    *)
(* all registered views hold the same mode, and it is the mode of the most *)
(* recent key change.                                                      *)
(***************************************************************************)
C2_Consistent ==
    (/\ last.kind = "idle" /\ last.cause = "key" /\ last.reg /\ ~last.stray
     /\ Len(idleQueue) = 0 /\ ~isBroadcasting
     /\ \A v \in Views : life[v] # "destroyed") =>
        /\ \A v, w \in Registered : mode[v] = mode[w]
        /\ \A v \in Registered :
              mode[v] = IF last.later = <<>> THEN last.mode ELSE last.later[1]

(***************************************************************************)
(* C3  Local-change detection (the claim as stated).  Every step in which  *)
(* a key press changes the mode of a registered view queues a broadcast of *)
(* the new mode from that view.                                            *)
(***************************************************************************)
C3_EveryLocalChangeScheduled ==
    [][\A v \in Registered :
          (nLocal' = nLocal + 1 /\ mode'[v] # mode[v]) =>
              /\ Len(idleQueue') = Len(idleQueue) + 1
              /\ idleQueue'[Len(idleQueue')] = [origin |-> v, mode |-> mode'[v]]]_vars

(***************************************************************************)
(* C4  No cascade (the claim as stated).  A forced set made by a broadcast *)
(* never schedules a broadcast, a broadcast dispatches at most once to     *)
(* each view, and the number of broadcasts executed never exceeds the      *)
(* number of local (key) changes.                                          *)
(***************************************************************************)
C4_ForcedNeverSchedules ==
    /\ last.kind = "idle" => ~last.sched
    /\ \A i \in 1 .. Len(idleGhost) : idleGhost[i].cause # "forced"
    /\ last.kind = "idle" => \A v \in Views : last.count[v] <= 1

C4_NoCascade ==
    /\ C4_ForcedNeverSchedules
    /\ nRun <= nLocal

(***************************************************************************)
(* C5  Broadcast execution.  An executed broadcast dispatched exactly once *)
(* to every registered view other than its origin and to no other view,    *)
(* and the origin's mode is what it was before the broadcast.              *)
(***************************************************************************)
C5_BroadcastExecution ==
    last.kind = "idle" =>
        /\ \A v \in Views :
              last.count[v] = IF v \in Registered \ {last.view} THEN 1 ELSE 0
        /\ mode[last.view] = last.before

C5_Witness ==
    /\ last.kind = "idle"
    /\ last.view \in Registered
    /\ Cardinality(Registered) >= 3
    /\ mode[last.view] # last.mode
    /\ \A v \in Registered \ {last.view} : mode[v] = last.mode /\ last.count[v] = 1

(***************************************************************************)
(* C6  New-instance inheritance.  In every step in which addInstance runs  *)
(* for a view, the view becomes registered; if other views were            *)
(* registered, its mode becomes the current mode of one of them, and if    *)
(* none was, its mode is left unchanged.                                   *)
(***************************************************************************)
C6_Inheritance ==
    [][(Len(rafQueue) > 0 /\ rafQueue' = Tail(rafQueue)) =>
          LET view == Head(rafQueue)
              others == Registered \ {view}
          IN  /\ view \in Range(instances')
              /\ IF others # {}
                 THEN \E d \in others : mode'[view] = mode[d]
                 ELSE mode'[view] = mode[view]]_vars

C6_Witness ==
    /\ nLocal = 1
    /\ nRun = 0
    /\ Len(rafQueue) = 0
    /\ Cardinality(Registered) = NumInstances
    /\ \A v \in Registered : mode[v] = InsertMode

(***************************************************************************)
(* C7  Deregistration (the claim as stated).  A destroyed view is never in *)
(* the registry, and no broadcast dispatches to a destroyed view.          *)
(***************************************************************************)
C7_Deregistered ==
    /\ \A v \in Views : life[v] = "destroyed" => v \notin Registered
    /\ last.kind = "idle" =>
          \A v \in Views : life[v] = "destroyed" => last.count[v] = 0

(***************************************************************************)
(* C8  Partial failure.  When dispatches to some followers threw during a  *)
(* broadcast, one warning was logged for each of them, every other         *)
(* registered view but the origin holds the broadcast mode, and            *)
(* isBroadcasting is false once the idle callback has finished.            *)
(***************************************************************************)
C8_PartialFailure ==
    last.kind = "idle" =>
        /\ \A v \in Registered \ ({last.view} \cup last.warned) :
              mode[v] = last.mode /\ last.count[v] = 1
        /\ \A v \in last.warned : last.count[v] = 1
        /\ ~isBroadcasting

C8_Witness ==
    /\ last.kind = "idle"
    /\ last.warned # {}
    /\ \E i, j \in 1 .. Len(instances) :
          /\ i < j
          /\ instances[i] \in last.warned
          /\ instances[j] \notin last.warned \cup {last.view}
          /\ mode[instances[i]] # last.mode
          /\ mode[instances[j]] = last.mode
    /\ ~isBroadcasting

(***************************************************************************)
(* C9  (the claim as stated).  isInHelixNormalMode is false for every mode *)
(* with major Normal and a minor other than Normal.                        *)
(***************************************************************************)
C9_NormalNeedsNormalMinor ==
    (pres.probed /\ pfield # <<>>) =>
        ((pfield[1].type = Normal /\ pfield[1].minor # MinorNormal) => ~pres.normal)

(***************************************************************************)
(* C10  Mode predicates over all mode values.  isInHelixInsertMode is true *)
(* exactly when the major mode is Insert; isInHelixNormalMode is true when *)
(* major and minor are Normal and false when the major mode is Insert or   *)
(* Select; the two are never both true.                                    *)
(***************************************************************************)
C10_ModePredicates ==
    (pres.probed /\ pfield # <<>>) =>
        /\ pres.insert <=> pfield[1].type = Insert
        /\ (pfield[1].type = Normal /\ pfield[1].minor = MinorNormal) => pres.normal
        /\ pfield[1].type \in {Insert, Select} => ~pres.normal
        /\ ~(pres.normal /\ pres.insert)

C10_Witness ==
    /\ pres.probed
    /\ pfield # <<>>
    /\ pfield[1].type = Select
    /\ ~pres.normal
    /\ ~pres.insert

(***************************************************************************)
(* C11  Next-cell navigation.  A j key press in mode (Normal, Normal) with *)
(* the main selection's end at the buffer length is handled and calls      *)
(* moveToNextCell({cellId of this cell, before: false, noCreate: true})    *)
(* exactly once; with the selection's end before the buffer end, or in     *)
(* major mode Insert or Select, it is unhandled and makes no call.         *)
(***************************************************************************)
C11_NextCell ==
    (pres.probed /\ pfield # <<>>) =>
        /\ (pfield[1] = helixModeFieldCreate /\ pto = pdoc) =>
              /\ pres.j.handled
              /\ pres.j.calls = <<[cellId |-> pcell, before |-> FALSE,
                                   noCreate |-> TRUE]>>
        /\ (pto < pdoc \/ pfield[1].type \in {Insert, Select}) =>
              /\ ~pres.j.handled
              /\ pres.j.calls = <<>>

C11_Witness ==
    /\ pres.probed
    /\ pfield = <<helixModeFieldCreate>>
    /\ pdoc = 0
    /\ pcell = "cellB"
    /\ pres.j.handled
    /\ Len(pres.j.calls) = 1

(***************************************************************************)
(* C12  Previous-cell navigation.  A k key press in mode (Normal, Normal)  *)
(* with the main selection starting at offset 0 is handled and calls       *)
(* moveToNextCell({cellId of this cell, before: true, noCreate: true})     *)
(* exactly once; with a start offset other than 0, or in major mode Insert *)
(* or Select (also with a selection starting at 0), it is unhandled and    *)
(* makes no call.                                                          *)
(***************************************************************************)
C12_PreviousCell ==
    (pres.probed /\ pfield # <<>>) =>
        /\ (pfield[1] = helixModeFieldCreate /\ pfrom = 0) =>
              /\ pres.k.handled
              /\ pres.k.calls = <<[cellId |-> pcell, before |-> TRUE,
                                   noCreate |-> TRUE]>>
        /\ (pfrom # 0 \/ pfield[1].type \in {Insert, Select}) =>
              /\ ~pres.k.handled
              /\ pres.k.calls = <<>>

C12_Witness ==
    /\ pres.probed
    /\ pfield # <<>>
    /\ pfield[1].type = Select
    /\ pfrom = 0
    /\ pto > 0
    /\ ~pres.k.handled
    /\ pres.k.calls = <<>>

(***************************************************************************)
(* C13  No navigation mid-sequence (the claim as stated).  In major mode   *)
(* Normal with minor Goto, Match or Space, a j or k key press is unhandled *)
(* and makes no call to moveToNextCell, whatever the selection.            *)
(***************************************************************************)
C13_NoNavigationMidSequence ==
    (pres.probed /\ pfield # <<>>) =>
        ((pfield[1].type = Normal /\ pfield[1].minor # MinorNormal) =>
            /\ ~pres.j.handled /\ pres.j.calls = <<>>
            /\ ~pres.k.handled /\ pres.k.calls = <<>>)

GotoMode == [type |-> Normal, minor |-> Goto]

(***************************************************************************)
(* C14  gd fires.  A d key press on a view whose interceptor is armed (g   *)
(* was pressed on it in Normal mode) and whose major mode is Normal calls  *)
(* goToDefinitionAtCursorPosition exactly once, is handled, returns the    *)
(* interceptor to Idle and leaves the view's mode at (Normal, Normal).     *)
(***************************************************************************)
C14_GdFires ==
    (klast.kind = "press" /\ klast.key = "d" /\ klast.armed
        /\ klast.before.type = Normal) =>
        /\ klast.gd = 1
        /\ klast.handled
        /\ ~awaitingGotoKey[klast.view]
        /\ mode[klast.view] = NormalMode

C14_Witness ==
    /\ klast.kind = "press"
    /\ klast.key = "d"
    /\ klast.armed
    /\ klast.before = GotoMode
    /\ klast.gd = 1
    /\ klast.handled
    /\ mode[klast.view] = NormalMode

(***************************************************************************)
(* C15  gd reset (the claim as stated).  A press of any key other than d   *)
(* on a view whose interceptor is armed returns the interceptor to Idle,   *)
(* calls no definition action and is left unhandled.                       *)
(***************************************************************************)
C15_AnyOtherKeyResets ==
    (klast.kind = "press" /\ klast.armed /\ klast.key # "d") =>
        /\ ~awaitingGotoKey[klast.view]
        /\ klast.gd = 0
        /\ ~klast.handled

(***************************************************************************)
(* C16  gd is per-instance.  A key press changes the awaitingGotoKey flag  *)
(* of no view other than the one it is pressed on, and a d press calls the *)
(* definition action only if the flag of its own view was set; so g on one *)
(* view followed by d on another calls it for neither.                     *)
(***************************************************************************)
C16_PerInstance ==
    [][/\ \A v \in Views :
             awaitingGotoKey'[v] # awaitingGotoKey[v] =>
                 (klast'.kind = "press" /\ klast'.view = v)
       /\ (klast'.kind = "press" /\ klast'.gd > 0) =>
             awaitingGotoKey[klast'.view]]_vars

C16_Witness ==
    /\ klast.kind = "press"
    /\ klast.key = "d"
    /\ ~klast.armed
    /\ klast.before = GotoMode
    /\ klast.gd = 0
    /\ ~klast.handled
    /\ \E a \in Views \ {klast.view} : awaitingGotoKey[a] /\ mode[a] = GotoMode

(***************************************************************************)
(* C17  gd only in Normal-major, with Normal mode read as the major mode   *)
(* alone.  In every key press: the definition action is called only by a d *)
(* on a view whose major mode is Normal and whose flag is set; the flag of *)
(* a view becomes set only by a g pressed on that view while its major     *)
(* mode is Normal; a g pressed in Insert or Select leaves the flag as it   *)
(* is; a d pressed in Insert or Select calls nothing, is unhandled and     *)
(* leaves the flag cleared.  This much holds of the handlers.              *)
(***************************************************************************)
C17_OnlyNormalMajor ==
    [][klast'.kind = "press" =>
          LET v == klast'.view
          IN  /\ klast'.gd > 0 =>
                    (klast'.key = "d" /\ mode[v].type = Normal /\ awaitingGotoKey[v])
              /\ \A w \in Views :
                    (awaitingGotoKey'[w] /\ ~awaitingGotoKey[w]) =>
                        (w = v /\ klast'.key = "g" /\ mode[v].type = Normal)
              /\ (klast'.key = "g" /\ mode[v].type \in {Insert, Select}) =>
                    awaitingGotoKey'[v] = awaitingGotoKey[v]
              /\ (klast'.key = "d" /\ mode[v].type \in {Insert, Select}) =>
                    (klast'.gd = 0 /\ ~klast'.handled /\ ~awaitingGotoKey'[v])]_vars

C17_Witness ==
    /\ klast.kind = "press"
    /\ klast.key = "d"
    /\ klast.armed
    /\ klast.before.type = Select
    /\ klast.gd = 0
    /\ ~klast.handled
    /\ ~awaitingGotoKey[klast.view]

(***************************************************************************)
(* C17  gd only in Normal-major (the claim as stated).  The definition     *)
(* action is called only by a d on a view whose major mode is Normal and   *)
(* whose flag is set, and the flag of a view becomes set only by a g       *)
(* pressed on that view while it is in Normal mode, (Normal, Normal-minor).*)
(***************************************************************************)
C17_ArmedOnlyInNormalMode ==
    [][klast'.kind = "press" =>
          LET v == klast'.view
          IN  /\ klast'.gd > 0 =>
                    (klast'.key = "d" /\ mode[v].type = Normal /\ awaitingGotoKey[v])
              /\ \A w \in Views :
                    (awaitingGotoKey'[w] /\ ~awaitingGotoKey[w]) =>
                        (w = v /\ klast'.key = "g" /\ mode[v] = NormalMode)]_vars

(***************************************************************************)
(* C18  gd round trip through the mode sync (the claim as stated).  When   *)
(* the last key change was the reset of a completed g d sequence on a      *)
(* registered view and every deferred broadcast has run, every registered  *)
(* view is at (Normal, Normal), whether the broadcast scheduled by g ran   *)
(* before d was pressed (the reset scheduled its own) or after.            *)
(***************************************************************************)
C18_GdRoundTrip ==
    (/\ last.kind = "idle" /\ last.reg /\ ~last.stray
     /\ Len(idleQueue) = 0 /\ ~isBroadcasting
     /\ \/ last.cause = "gd" /\ last.later = <<>>
        \/ last.cause = "key" /\ last.gd) =>
        \A v \in Registered : mode[v] = NormalMode

(***************************************************************************)
(* C19  A scheduled broadcast always eventually runs.  A pending broadcast *)
(* leaves the queue of idle callbacks only by being run, oldest first,     *)
(* with its own origin and mode (also when the origin was destroyed        *)
(* meanwhile) and with isBroadcasting false afterwards; and under fairness *)
(* of the idle callback, whenever a broadcast is pending, eventually the   *)
(* idle callback has run, nothing is pending and isBroadcasting is false.  *)
(***************************************************************************)
C19_ScheduledEventuallyRuns ==
    /\ [][idleQueue' # idleQueue =>
            \/ /\ Len(idleQueue') = Len(idleQueue) + 1
               /\ SubSeq(idleQueue', 1, Len(idleQueue)) = idleQueue
            \/ /\ Len(idleQueue) > 0
               /\ idleQueue' = Tail(idleQueue)
               /\ last'.kind = "idle"
               /\ last'.view = Head(idleQueue).origin
               /\ last'.mode = Head(idleQueue).mode
               /\ ~isBroadcasting']_vars
    /\ (Len(idleQueue) > 0)
          ~> (last.kind = "idle" /\ Len(idleQueue) = 0 /\ ~isBroadcasting)

C19_Witness ==
    /\ last.kind = "idle"
    /\ last.cause = "key"
    /\ life[last.view] = "destroyed"
    /\ ~isBroadcasting
    /\ Len(idleQueue) = 0

(***************************************************************************)
(* C20  Only primary changes are broadcast sources (the claim as stated).  *)
(* Every executed broadcast was scheduled by a key press on its origin,    *)
(* never by a mode assigned to the origin by a broadcast or by the donor   *)
(* adoption of addInstance.                                                *)
(***************************************************************************)
C20_OnlyPrimaryOrigins ==
    last.kind = "idle" => last.cause = "key"

(***************************************************************************)
(* C21  Broadcast ordering.  Broadcasts run in the order in which they     *)
(* were scheduled, and one scheduled later is never delivered before one   *)
(* scheduled earlier: a step that schedules a broadcast is taken only when *)
(* every broadcast scheduled before it has run, and it puts the broadcast  *)
(* last; the run of an idle callback executes the oldest pending           *)
(* broadcast, delivers its mode to every registered view other than the    *)
(* origin, and leaves no broadcast scheduled before it pending.            *)
(***************************************************************************)
C21_BroadcastOrder ==
    [][/\ Len(idleQueue') > Len(idleQueue) - (nRun' - nRun) =>
              /\ nRun' = nRun
              /\ idleQueue = <<>>
              /\ Len(idleQueue') = 1
       /\ nRun' = nRun + 1 =>
              /\ Len(idleQueue) > 0
              /\ last'.kind = "idle"
              /\ last'.view = idleQueue[1].origin
              /\ last'.mode = idleQueue[1].mode
              /\ idleQueue' = Tail(idleQueue)
              /\ \A w \in Range(instances) \ {idleQueue[1].origin} :
                     mode'[w] = idleQueue[1].mode
       /\ nRun' = nRun =>
              SubSeq(idleQueue', 1, Len(idleQueue)) = idleQueue]_vars

C21_Witness ==
    /\ nRun >= 2
    /\ last.kind = "idle"
    /\ last.cause = "key"
    /\ Cardinality(Range(instances)) >= 2
    /\ \E w \in Range(instances) : w # last.view /\ last.count[w] = 1

(***************************************************************************)
(* C27  Teardown before the deferred broadcast.  When the idle callback of *)
(* a broadcast runs after its origin was destroyed, it still dispatches    *)
(* the mode once to every other view of the registry, which then holds it, *)
(* makes no dispatch on the destroyed origin, whose mode stays what it     *)
(* was, and clears the broadcasting flag.                                  *)
(***************************************************************************)
C27_TeardownBeforeBroadcast ==
    (last.kind = "idle" /\ life[last.view] = "destroyed") =>
        /\ \A w \in Range(instances) \ {last.view} :
               last.count[w] = 1 /\ mode[w] = last.mode
        /\ last.count[last.view] = 0
        /\ mode[last.view] = last.before
        /\ ~isBroadcasting

C27_Witness ==
    /\ last.kind = "idle"
    /\ life[last.view] = "destroyed"
    /\ last.view \notin Range(instances)
    /\ \E w \in Range(instances) :
          last.count[w] = 1 /\ mode[w] = last.mode /\ mode[w] # helixModeFieldCreate

(***************************************************************************)
(* C28  At most one broadcast in flight.  In every state at most one       *)
(* deferred broadcast is pending, and isBroadcasting is true exactly when  *)
(* one is; a step sets the flag only by scheduling a broadcast and clears  *)
(* it only by running the idle callback.                                   *)
(***************************************************************************)
C28_AtMostOneInFlight ==
    /\ [](Len(idleQueue) <= 1 /\ (isBroadcasting <=> Len(idleQueue) = 1))
    /\ [][/\ (~isBroadcasting /\ isBroadcasting') =>
                (nRun' = nRun /\ idleQueue = <<>> /\ Len(idleQueue') = 1)
          /\ (isBroadcasting /\ ~isBroadcasting') =>
                (nRun' = nRun + 1 /\ last'.kind = "idle" /\ idleQueue' = <<>>)]_vars

C28_Witness ==
    /\ nRun >= 1
    /\ isBroadcasting
    /\ Len(idleQueue) = 1
    /\ last.kind = "none"

(***************************************************************************)
(* C29  Broadcast payload.  The mode queued with a broadcast is the new    *)
(* mode of the change that scheduled it; the run of the idle callback      *)
(* gives exactly that mode to every registered view other than the origin, *)
(* also when the origin's mode has changed again in between.               *)
(***************************************************************************)
C29_PayloadCaptured ==
    /\ [][Len(idleQueue') > Len(idleQueue) =>
             LET cb == idleQueue'[Len(idleQueue')]
             IN  cb.mode = mode'[cb.origin] /\ cb.mode # mode[cb.origin]]_vars
    /\ [][nRun' = nRun + 1 =>
             /\ last'.mode = idleQueue[1].mode
             /\ \A w \in Range(instances) \ {idleQueue[1].origin} :
                    mode'[w] = idleQueue[1].mode]_vars

C29_Witness ==
    /\ last.kind = "idle"
    /\ last.before # last.mode
    /\ mode[last.view] = last.before
    /\ \E w \in Range(instances) \ {last.view} :
          last.count[w] = 1 /\ mode[w] = last.mode

(***************************************************************************)
(* C23  Ctrl+Escape re-dispatch.  A keydown with ctrlKey set and key       *)
(* Escape is dispatched again exactly once, as a keydown with the same key *)
(* and modifier, on view.dom, and the handler returns true; for every      *)
(* other keydown the handler returns false and dispatches nothing.         *)
(***************************************************************************)
C23_CtrlEscape ==
    pres.probed =>
        IF pev.ctrlKey /\ pev.key = "Escape"
        THEN /\ pres.keydown.handled
             /\ pres.keydown.dispatched =
                    <<[target |-> "view.dom", type |-> "keydown",
                       key |-> "Escape", ctrlKey |-> TRUE]>>
        ELSE /\ ~pres.keydown.handled
             /\ pres.keydown.dispatched = <<>>

C23_Witness ==
    /\ pres.probed
    /\ pev = [key |-> "Escape", ctrlKey |-> TRUE]
    /\ pres.keydown.handled
    /\ Len(pres.keydown.dispatched) = 1

(***************************************************************************)
(* C24  Absent mode default.  On a state without the helix mode field,     *)
(* isInHelixNormalMode returns true and isInHelixInsertMode returns false, *)
(* in both sources, and both return a boolean.                             *)
(***************************************************************************)
C24_AbsentModeDefault ==
    (pres.probed /\ pfield = <<>>) =>
        /\ pres.normal = TRUE
        /\ pres.insert = FALSE
        /\ pres.normal000 = TRUE
        /\ pres.insert000 = FALSE

C24_Witness ==
    /\ pres.probed
    /\ pfield = <<>>
    /\ pres.normal
    /\ ~pres.insert

(***************************************************************************)
(* C26  Mode field.  The field is created as {type: 0, minor: 2}, which is *)
(* the mode of a view that was just constructed; a transaction without a   *)
(* mode effect leaves the value unchanged, one with mode effects makes it  *)
(* the value of the first of them.                                         *)
(***************************************************************************)
C26_ModeField ==
    /\ helixModeFieldCreate = [type |-> 0, minor |-> 2]
    /\ \A v \in Views : life[v] = "none" => mode[v] = helixModeFieldCreate
    /\ (pres.probed /\ pfield # <<>>) =>
          /\ peffs = <<>> => pres.afterTx = pfield
          /\ peffs # <<>> => pres.afterTx = <<peffs[1]>>

C26_Witness ==
    /\ pres.probed
    /\ Len(peffs) = 2
    /\ peffs[1] # peffs[2]
    /\ peffs[1] # pfield[1]
    /\ pres.afterTx = <<peffs[1]>>

(***************************************************************************)
(* C30  Ctrl-[ exit from Insert, as the keymaps built for Linux and for    *)
(* Windows have it: a Ctrl-[ press on a view whose major mode is Insert is *)
(* handled and sets the mode to (Normal, Normal-minor); on a view in any   *)
(* other mode it is left unhandled and the mode is unchanged.              *)
(***************************************************************************)
C30_CtrlBracketLinuxWin ==
    (pres.probed /\ pev = [key |-> "[", ctrlKey |-> TRUE]
                 /\ pplat \in {"linux", "win"}) =>
        IF pfield # <<>> /\ pfield[1].type = Insert
        THEN /\ pres.ctrlBracket.handled
             /\ pres.afterCtrlBracket = <<NormalMode>>
        ELSE /\ ~pres.ctrlBracket.handled
             /\ pres.ctrlBracket.effects = <<>>
             /\ pres.afterCtrlBracket = pfield

C30_Witness ==
    /\ pres.probed
    /\ pev = [key |-> "[", ctrlKey |-> TRUE]
    /\ pplat = "linux"
    /\ pfield = <<[type |-> Insert, minor |-> MinorNormal]>>
    /\ pres.ctrlBracket.handled
    /\ pres.afterCtrlBracket = <<NormalMode>>

(***************************************************************************)
(* C30 as stated, for every platform: a Ctrl-[ press on a view whose major *)
(* mode is Insert is handled and sets the mode to (Normal, Normal-minor);  *)
(* in any other mode it is left unhandled and the mode is unchanged.       *)
(***************************************************************************)
C30_CtrlBracketEveryPlatform ==
    (pres.probed /\ pev = [key |-> "[", ctrlKey |-> TRUE]) =>
        IF pfield # <<>> /\ pfield[1].type = Insert
        THEN /\ pres.ctrlBracket.handled
             /\ pres.afterCtrlBracket = <<NormalMode>>
        ELSE /\ ~pres.ctrlBracket.handled
             /\ pres.ctrlBracket.effects = <<>>
             /\ pres.afterCtrlBracket = pfield

(***************************************************************************)
(* C22  Save command.  The extension registers exactly one typed command,  *)
(* named write with the alias w; each invocation of its handler calls      *)
(* saveNotebook exactly once and leaves every mode, the registry, the      *)
(* broadcasting flag with the pending broadcasts, and every awaiting flag  *)
(* as they were.                                                           *)
(***************************************************************************)
C22_SaveCommand ==
    [][/\ Len(commandsOf) = 1
       /\ commandsOf[1].name = "write"
       /\ commandsOf[1].aliases = <<"w">>
       /\ klast'.kind = "write" =>
              /\ klast'.saves = 1
              /\ UNCHANGED <<life, mode, instances, isBroadcasting, rafQueue,
                             idleQueue, awaitingGotoKey>>]_vars

C22_Witness ==
    /\ klast.kind = "write"
    /\ klast.saves = 1
    /\ klast.armed
    /\ awaitingGotoKey[klast.view]
    /\ klast.before = GotoMode
    /\ mode[klast.view] = GotoMode
    /\ isBroadcasting

(***************************************************************************)
(* C25  The first key is always forwarded (the claim as stated).  A g      *)
(* press is left unhandled by the keymaps whatever the flag and the mode,  *)
(* so the engine receives it and sets the mode; it calls no definition     *)
(* action and touches no other view's flag; it never clears the flag of    *)
(* its view, and sets it only when the view is in Normal mode, (Normal,    *)
(* Normal-minor).                                                          *)
(***************************************************************************)
C25_FirstKeyForwarded ==
    [][(klast'.kind = "press" /\ klast'.key = "g") =>
          LET v == klast'.view
          IN  /\ ~klast'.handled
              /\ klast'.gd = 0
              /\ mode'[v] = Engine("g", mode[v])
              /\ \A w \in Views \ {v} : awaitingGotoKey'[w] = awaitingGotoKey[w]
              /\ awaitingGotoKey[v] => awaitingGotoKey'[v]
              /\ (awaitingGotoKey'[v] /\ ~awaitingGotoKey[v]) =>
                    mode[v] = NormalMode]_vars

(***************************************************************************)
(* C32  Test reset hook.  A call of resetHelixModeSync, from any state,    *)
(* leaves the registry empty and the broadcasting flag false and changes   *)
(* no view's mode; and as long as the registry stays empty afterwards, a   *)
(* step changes the mode of no view other than the one a key was pressed   *)
(* on: neither that key press nor the idle callbacks that run force-set    *)
(* another view.                                                           *)
(***************************************************************************)
C32_TestReset ==
    [][/\ last'.kind = "reset" =>
              /\ instances' = <<>>
              /\ ~isBroadcasting'
              /\ mode' = mode
              /\ life' = life
       /\ (instances = <<>> /\ instances' = <<>>) =>
              /\ nLocal' = nLocal => mode' = mode
              /\ nLocal' # nLocal =>
                     Cardinality({w \in Views : mode'[w] # mode[w]}) = 1
              /\ nRun' = nRun + 1 => \A w \in Views : last'.count[w] = 0]_vars

C32_Witness ==
    /\ instances = <<>>
    /\ rafQueue = <<>>
    /\ \A v \in Views : life[v] = "mounted"
    /\ last.kind = "idle"
    /\ last.cause = "key"
    /\ ~last.reg
    /\ mode[last.view] = last.mode
    /\ \A w \in Views \ {last.view} : mode[w] # last.mode /\ last.count[w] = 0

(***************************************************************************)
(* C31  Register-sync guard: the part that holds.  A yank whose syncFrom   *)
(* finds the flag unset and meets no throwing dispatch dispatches exactly  *)
(* once to every registered view but the origin, which then holds the      *)
(* origin's registers; the syncFrom that each of these dispatches starts   *)
(* on the follower returns at the guard, dispatching nothing; and the flag *)
(* is false afterwards.                                                    *)
(***************************************************************************)
C31_SyncWithoutThrow ==
    (ylast.kind = "yank" /\ ~ylast.guarded /\ ~ylast.threw) =>
        /\ \A w \in Range(stateInstances) \ {ylast.view} :
               ylast.count[w] = 1 /\ registers[w] = registers[ylast.view]
        /\ ylast.count[ylast.view] = 0
        /\ ylast.suppressed = Cardinality(Range(stateInstances) \ {ylast.view})
        /\ ~stateIsBroadcasting

(***************************************************************************)
(* C31  Register-sync guard (the claim as stated).  Between steps no       *)
(* syncFrom call is executing, so the guard flag is false in every state,  *)
(* also after a follower's dispatch has thrown; hence the syncFrom of      *)
(* every yank finds the flag unset; and a yank that meets no throwing      *)
(* dispatch brings every registered view but the origin to the origin's    *)
(* registers with one dispatch each, the nested syncFrom calls doing       *)
(* nothing.                                                                *)
(***************************************************************************)
C31_RegisterSyncGuard ==
    /\ ~stateIsBroadcasting
    /\ ylast.kind = "yank" => ~ylast.guarded
    /\ (ylast.kind = "yank" /\ ~ylast.threw) =>
          /\ \A w \in Range(stateInstances) \ {ylast.view} :
                 ylast.count[w] = 1 /\ registers[w] = registers[ylast.view]
          /\ ylast.count[ylast.view] = 0

=============================================================================
